---------------------------- MODULE Spec2Model ----------------------------
(***************************************************************************)
(* Model of src/src/galeshapley.ts: the MatchContainer candidate tracker   *)
(* and the Matcher engine (match, evictUnmatching, getMatches).            *)
(*                                                                         *)
(* Indices are 0-based as in the source; a TLA+ sequence s is read at      *)
(* s[i + 1].  One getMatches() call is a run of steps: the loop test, one  *)
(* forEach callback per profile, the end of the round, one eviction        *)
(* callback per vacancy and the materialisation of the result.             *)
(***************************************************************************)
EXTENDS Integers, Sequences, FiniteSets, TLC

(* ------------------------------ bounds --------------------------------- *)

MaxLen == 2
NumColors == 2
MaxCap == 3
MaxCalls == 2

Colors == 1..NumColors

\* the loop counter of one match() run never gets here (guard of the model)
MaxRounds == MaxLen + 3

(* --------------------------- values of the code ------------------------ *)

\* MatchContainer.match === null
Null == -1

\* the value nextCandidate() returns when the candidates are used up
Exhausted == -1

\* a vacancy item: the vacancy of the README and of the tests, {want: c}
VacancyItems == [want : Colors]

\* a profile item, {have: c}
ProfileItems == [have : Colors]

SeqsUpTo(S, n) == UNION {[1..k -> S] : k \in 0..n}

Distinct(seq) == \A i, j \in 1..Len(seq) : i # j => seq[i] # seq[j]

\* the lists handed to the constructor: any list of at most n items of S.
\* The items of a list are distinct objects, as in the tests: the engine
\* tells items apart by index only, so a predicate over a list with equal
\* items answers as some "table" predicate over distinct ones.
InputLists(S, n) == {s \in SeqsUpTo(S, n) : Distinct(s)}

\* maxLoopCount: negative, 0 (both: no safety net) or a positive cap
CapValues == {-1} \cup (0..MaxCap)

\* the injected vacancyPrefersProfile functions the model runs with:
\*   "always"        () => true
\*   "complementary" the predicate of the tests and of the README
\*   "table"         any deterministic function of its three arguments
PredicateKinds == {"always", "complementary", "table"}

VARIABLES
    wrappedProfiles,    \* Matcher.wrappedProfiles
    wrappedVacancies,   \* Matcher.wrappedVacancies
    kind,               \* which vacancyPrefersProfile was injected
    answers,            \* the answers vacancyPrefersProfile has given so far
    predCalls,          \* number of invocations of vacancyPrefersProfile
    maxLoopCount,       \* Matcher.maxLoopCount
    done,               \* Matcher.done
    loopCount,          \* the local loopCount of match()
    pc,                 \* position inside getMatches()/match()
    idx,                \* index of the forEach/map callback that runs next
    output,             \* the list returned by the last successful call
    history,            \* outcome of each completed getMatches() call
    lastStep,           \* what the last forEach/map callback did
    roundLog,           \* what the proposals of the current round did
    tracker,            \* a MatchContainer used on its own, as in the tests
    returned            \* the values its nextCandidate() calls returned

vars == <<wrappedProfiles, wrappedVacancies, kind, answers, predCalls,
          maxLoopCount, done, loopCount, pc, idx, output, history,
          lastStep, roundLog, tracker, returned>>

(* --------------------------- MatchContainer ---------------------------- *)

MatchContainer(obj, candidates) ==
    [obj |-> obj, match |-> Null, currentCandidate |-> 0,
     candidates |-> candidates]

\* the mutated copy: the cursor is not advanced
NextCandidateNoAdvance(c) ==
    IF c.currentCandidate >= Len(c.candidates)
    THEN [output |-> Exhausted, self |-> c]
    ELSE [output |-> c.currentCandidate, self |-> c]

\* the mutated copy: a call that finds the list used up moves the cursor too
NextCandidateCountsExhausted(c) ==
    IF c.currentCandidate >= Len(c.candidates)
    THEN [output |-> Exhausted,
          self |-> [c EXCEPT !.currentCandidate = @ + 1]]
    ELSE [output |-> c.currentCandidate,
          self |-> [c EXCEPT !.currentCandidate = @ + 1]]

\* nextCandidate(): the returned index and the container after the call
NextCandidate(c) ==
    IF c.currentCandidate >= Len(c.candidates)
    THEN [output |-> Exhausted, self |-> c]
    ELSE [output |-> c.currentCandidate,
          self |-> [c EXCEPT !.currentCandidate = @ + 1]]

(* ------------------------------ predicate ------------------------------ *)

\* the value handed to the predicate as a null current match
NullItem == [have |-> Null]

\* (vacancy, currentProfile, newProfile) =>
\*     currentProfile === null || vacancy.want === newProfile.have
\* currentIsNull stands for currentProfile === null
Complementary(vacancy, currentIsNull, newProfile) ==
    currentIsNull \/ vacancy.want = newProfile.have

\* the values a call vacancyPrefersProfile(vacancy, current, newMatch) can
\* return
PredicateAnswers(vacancy, current, newMatch) ==
    IF <<vacancy, current, newMatch>> \in DOMAIN answers
    THEN {answers[<<vacancy, current, newMatch>>]}
    ELSE CASE kind = "always" -> {TRUE}
           [] kind = "complementary" ->
                  {Complementary(vacancy, current = NullItem, newMatch)}
           [] OTHER -> BOOLEAN

RecordAnswer(vacancy, current, newMatch, b) ==
    IF <<vacancy, current, newMatch>> \in DOMAIN answers
    THEN answers
    ELSE answers @@ (<<vacancy, current, newMatch>> :> b)

(* ------------------------------- Matcher ------------------------------- *)

Init ==
    /\ \E profiles \in InputLists(ProfileItems, MaxLen),
          vacancies \in InputLists(VacancyItems, MaxLen) :
          /\ wrappedProfiles =
                 [i \in 1..Len(profiles) |->
                      MatchContainer(profiles[i], vacancies)]
          /\ wrappedVacancies =
                 [i \in 1..Len(vacancies) |->
                      MatchContainer(vacancies[i], profiles)]
    /\ kind \in PredicateKinds
    /\ answers = <<>>
    /\ predCalls = 0
    /\ maxLoopCount \in CapValues
    /\ done = FALSE
    /\ loopCount = 0
    /\ pc = "idle"
    /\ idx = 0
    /\ output = <<>>
    /\ history = <<>>
    /\ lastStep = [op |-> "none", profile |-> Null, vacancy |-> Null,
                   consulted |-> FALSE, current |-> Null,
                   accepted |-> FALSE]
    /\ roundLog = [changed |-> FALSE, free |-> FALSE]
    /\ tracker = MatchContainer(NullItem, <<>>)
    /\ returned = <<>>

\* the mutated copy: every call runs match()
NeedsMatchAlways(d) == TRUE

\* getMatches(): if (!this.done) this.match()
NeedsMatch(d) == ~d

\* the mutated copy: the pairs are pushed profile first
GetMatchesOutputSwapped(wv, wp) ==
    LET RECURSIVE Push(_)
        Push(n) ==
            IF n = 0 THEN <<>>
            ELSE IF wv[n].match # Null
                 THEN Append(Push(n - 1),
                             <<wp[wv[n].match + 1].obj, wv[n].obj>>)
                 ELSE Push(n - 1)
    IN Push(Len(wv))

\* getMatches(): the output list built by the map over wrappedVacancies
GetMatchesOutput(wv, wp) ==
    LET RECURSIVE Push(_)
        Push(n) ==
            IF n = 0 THEN <<>>
            ELSE IF wv[n].match # Null
                 THEN Append(Push(n - 1),
                             <<wv[n].obj, wp[wv[n].match + 1].obj>>)
                 ELSE Push(n - 1)
    IN Push(Len(wv))

\* the mutated copy: the cap is compared with <=
LoopConditionOffByOne(d, max, count) ==
    ~d /\ (max <= 0 \/ count <= max)

\* the condition of the while loop of match()
LoopCondition(d, max, count) ==
    ~d /\ (max <= 0 \/ count < max)

\* the mutated copy: the round does not reset the flag
DoneAtRoundStartMissing == FALSE

\* this.done = true at the top of the loop body
DoneAtRoundStart == TRUE

\* the mutated copy: a free vacancy does not keep the loop going
DoneAfterVacancyCheckMissing(d, vacancyMatch) == d

\* if (candidateVacancy.match === null) this.done = false
DoneAfterVacancyCheck(d, vacancyMatch) ==
    IF vacancyMatch = Null THEN FALSE ELSE d

\* the mutated copy: the pairing is kept when the predicate rejects it
EvictsKeepAll(b) == FALSE

\* evictUnmatching(): the pairing goes when the predicate returns false
Evicts(b) == ~b

\* the mutated copy: a free vacancy takes any proposer, never at once
ImmediateAcceptNever(vacancyMatch, profileMatch) == FALSE

\* candidateVacancy.match === null && wrappedProfile.match === null
ImmediateAccept(vacancyMatch, profileMatch) ==
    vacancyMatch = Null /\ profileMatch = Null

\* the mutated copy: the predicate is asked whatever the vacancy holds
ConsultsPredicateAlways(vacancyMatch) == TRUE

\* currentMatch !== null && this.vacancyPrefersProfile(...): the call is
\* made only when the vacancy holds a match
ConsultsPredicate(vacancyMatch) == vacancyMatch # Null

\* the mutated copy: an acceptance does not keep the loop going
DoneAfterAcceptMissing(d) == d

\* this.done = false in the accepting branch
DoneAfterAccept(d) == FALSE

\* the mutated copy: the vacancy the proposing profile held before is
\* released too
VacanciesAfterAcceptReleasing(wv, wp, vacancyIndex, profileIndex) ==
    LET previous == wp[profileIndex + 1].match
        released == IF previous = Null
                    THEN wv
                    ELSE [wv EXCEPT ![previous + 1].match = Null]
    IN [released EXCEPT ![vacancyIndex + 1].match = profileIndex]

\* candidateVacancy.match = profileIndex in the accepting branch: the
\* vacancy trackers after the predicate accepted the proposal
VacanciesAfterAccept(wv, wp, vacancyIndex, profileIndex) ==
    [wv EXCEPT ![vacancyIndex + 1].match = profileIndex]

\* the current match of every tracker of a list
Matches(w) == [i \in 1..Len(w) |-> w[i].match]

\* what a forEach callback of match() did
ProposalStep(profileIndex, vacancyIndex, consulted, current, accepted) ==
    [op |-> "propose", profile |-> profileIndex, vacancy |-> vacancyIndex,
     consulted |-> consulted, current |-> current, accepted |-> accepted]

\* what a map callback of evictUnmatching() did
EvictionStep(profileIndex, vacancyIndex, consulted, current, kept) ==
    [op |-> "evict", profile |-> profileIndex, vacancy |-> vacancyIndex,
     consulted |-> consulted, current |-> current, accepted |-> kept]

\* getMatches() is called
GetMatches ==
    /\ pc = "idle"
    /\ Len(history) < MaxCalls
    /\ IF NeedsMatch(done)
       THEN /\ pc' = "while"
            /\ loopCount' = 0
            /\ UNCHANGED <<output, history>>
       ELSE /\ output' = GetMatchesOutput(wrappedVacancies, wrappedProfiles)
            /\ history' = Append(history, "returned")
            /\ UNCHANGED <<pc, loopCount>>
    /\ UNCHANGED <<wrappedProfiles, wrappedVacancies, kind, answers,
                   predCalls, maxLoopCount, done, idx, lastStep, roundLog>>
    /\ UNCHANGED <<tracker, returned>>

\* match(): the while condition holds and a round starts
RoundStart ==
    /\ pc = "while"
    /\ LoopCondition(done, maxLoopCount, loopCount)
    /\ loopCount < MaxRounds
    /\ done' = DoneAtRoundStart
    /\ pc' = "forEach"
    /\ idx' = 0
    /\ roundLog' = [changed |-> FALSE, free |-> FALSE]
    /\ UNCHANGED <<wrappedProfiles, wrappedVacancies, kind, answers,
                   predCalls, maxLoopCount, loopCount, output, history,
                   lastStep>>
    /\ UNCHANGED <<tracker, returned>>

\* match(): one callback of wrappedProfiles.forEach
Propose ==
    /\ pc = "forEach"
    /\ idx < Len(wrappedProfiles)
    /\ LET profileIndex == idx
           next == NextCandidate(wrappedProfiles[profileIndex + 1])
           wrappedProfile == next.self
           candidateVacancyIndex == next.output
           advanced == [wrappedProfiles EXCEPT
                            ![profileIndex + 1] = wrappedProfile]
       IN IF candidateVacancyIndex = Exhausted
          THEN /\ wrappedProfiles' = advanced
               /\ lastStep' = ProposalStep(profileIndex, Exhausted, FALSE,
                                           Null, FALSE)
               /\ UNCHANGED <<wrappedVacancies, answers, predCalls, done,
                              roundLog>>
          ELSE
            LET candidateVacancy ==
                    wrappedVacancies[candidateVacancyIndex + 1]
                currentMatch ==
                    IF candidateVacancy.match = Null
                    THEN NullItem
                    ELSE wrappedProfiles[candidateVacancy.match + 1].obj
                done1 == DoneAfterVacancyCheck(done, candidateVacancy.match)
            IN /\ IF ImmediateAccept(candidateVacancy.match,
                                     wrappedProfile.match)
                  THEN /\ wrappedVacancies' =
                              [wrappedVacancies EXCEPT
                                   ![candidateVacancyIndex + 1].match =
                                       profileIndex]
                       /\ wrappedProfiles' =
                              [advanced EXCEPT
                                   ![profileIndex + 1].match =
                                       candidateVacancyIndex]
                       /\ done' = done1
                       /\ lastStep' =
                              ProposalStep(profileIndex,
                                           candidateVacancyIndex, FALSE,
                                           Null, TRUE)
                       /\ UNCHANGED <<answers, predCalls>>
                  ELSE IF ~ConsultsPredicate(candidateVacancy.match)
                  THEN \* currentMatch !== null is false: no call
                       /\ wrappedProfiles' = advanced
                       /\ done' = done1
                       /\ lastStep' =
                              ProposalStep(profileIndex,
                                           candidateVacancyIndex, FALSE,
                                           Null, FALSE)
                       /\ UNCHANGED <<wrappedVacancies, answers, predCalls>>
                  ELSE
                    \E b \in PredicateAnswers(candidateVacancy.obj,
                                              currentMatch,
                                              wrappedProfile.obj) :
                      /\ answers' = RecordAnswer(candidateVacancy.obj,
                                                 currentMatch,
                                                 wrappedProfile.obj, b)
                      /\ predCalls' = predCalls + 1
                      /\ lastStep' =
                             ProposalStep(profileIndex,
                                          candidateVacancyIndex, TRUE,
                                          candidateVacancy.match, b)
                      /\ IF b
                         THEN /\ done' = DoneAfterAccept(done1)
                              /\ wrappedProfiles' =
                                   [(IF candidateVacancy.match # Null
                                     THEN [advanced EXCEPT
                                             ![candidateVacancy.match + 1]
                                                 .match = Null]
                                     ELSE advanced)
                                     EXCEPT ![profileIndex + 1].match =
                                                candidateVacancyIndex]
                              /\ wrappedVacancies' =
                                   VacanciesAfterAccept(
                                       wrappedVacancies, advanced,
                                       candidateVacancyIndex, profileIndex)
                         ELSE /\ done' = done1
                              /\ wrappedProfiles' = advanced
                              /\ UNCHANGED wrappedVacancies
               /\ roundLog' =
                      [changed |->
                           \/ roundLog.changed
                           \/ Matches(wrappedProfiles') #
                                  Matches(wrappedProfiles)
                           \/ Matches(wrappedVacancies') #
                                  Matches(wrappedVacancies),
                       free |-> roundLog.free
                                    \/ candidateVacancy.match = Null]
    /\ idx' = idx + 1
    /\ UNCHANGED <<kind, maxLoopCount, loopCount, pc, output, history>>
    /\ UNCHANGED <<tracker, returned>>

\* match(): the forEach is over, loopCount += 1
RoundEnd ==
    /\ pc = "forEach"
    /\ idx = Len(wrappedProfiles)
    /\ loopCount' = loopCount + 1
    /\ pc' = "while"
    /\ UNCHANGED <<wrappedProfiles, wrappedVacancies, kind, answers,
                   predCalls, maxLoopCount, done, idx, output, history,
                   lastStep, roundLog>>
    /\ UNCHANGED <<tracker, returned>>

\* match(): the loop is left with done false, the error is thrown
Throw ==
    /\ pc = "while"
    /\ ~LoopCondition(done, maxLoopCount, loopCount)
    /\ ~done
    /\ pc' = "idle"
    /\ history' = Append(history, "error")
    /\ UNCHANGED <<wrappedProfiles, wrappedVacancies, kind, answers,
                   predCalls, maxLoopCount, done, loopCount, idx, output,
                   lastStep, roundLog>>
    /\ UNCHANGED <<tracker, returned>>

\* match(): the loop is left with done true, evictUnmatching() starts
EvictStart ==
    /\ pc = "while"
    /\ ~LoopCondition(done, maxLoopCount, loopCount)
    /\ done
    /\ pc' = "evict"
    /\ idx' = 0
    /\ UNCHANGED <<wrappedProfiles, wrappedVacancies, kind, answers,
                   predCalls, maxLoopCount, done, loopCount, output,
                   history, lastStep, roundLog>>
    /\ UNCHANGED <<tracker, returned>>

\* evictUnmatching(): one callback of wrappedVacancies.map
Evict ==
    /\ pc = "evict"
    /\ idx < Len(wrappedVacancies)
    /\ LET vacancy == wrappedVacancies[idx + 1]
       IN IF vacancy.match = Null
          THEN /\ lastStep' = EvictionStep(Null, idx, FALSE, Null, FALSE)
               /\ UNCHANGED <<wrappedProfiles, wrappedVacancies, answers,
                              predCalls>>
          ELSE
            LET matchedProfile == wrappedProfiles[vacancy.match + 1]
                currentMatch == matchedProfile.obj
            IN \E b \in PredicateAnswers(vacancy.obj, currentMatch,
                                         matchedProfile.obj) :
                 /\ answers' = RecordAnswer(vacancy.obj, currentMatch,
                                            matchedProfile.obj, b)
                 /\ predCalls' = predCalls + 1
                 /\ lastStep' = EvictionStep(vacancy.match, idx, TRUE,
                                             vacancy.match, ~Evicts(b))
                 /\ IF Evicts(b)
                    THEN /\ wrappedVacancies' =
                                [wrappedVacancies EXCEPT
                                     ![idx + 1].match = Null]
                         /\ wrappedProfiles' =
                                [wrappedProfiles EXCEPT
                                     ![vacancy.match + 1].match = Null]
                    ELSE UNCHANGED <<wrappedProfiles, wrappedVacancies>>
    /\ idx' = idx + 1
    /\ UNCHANGED <<kind, maxLoopCount, done, loopCount, pc, output,
                   history, roundLog>>
    /\ UNCHANGED <<tracker, returned>>

\* getMatches(): match() has returned, the output list is built and returned
Return ==
    /\ pc = "evict"
    /\ idx = Len(wrappedVacancies)
    /\ output' = GetMatchesOutput(wrappedVacancies, wrappedProfiles)
    /\ history' = Append(history, "returned")
    /\ pc' = "idle"
    /\ UNCHANGED <<wrappedProfiles, wrappedVacancies, kind, answers,
                   predCalls, maxLoopCount, done, loopCount, idx, lastStep,
                   roundLog>>
    /\ UNCHANGED <<tracker, returned>>

\* the steps of a call that is under way
Run ==
    \/ RoundStart
    \/ Propose
    \/ RoundEnd
    \/ Throw
    \/ EvictStart
    \/ Evict
    \/ Return

Next ==
    \/ GetMatches
    \/ RoundStart
    \/ Propose
    \/ RoundEnd
    \/ Throw
    \/ EvictStart
    \/ Evict
    \/ Return

Spec == Init /\ [][Next]_vars

\* a call that has started runs to its end: the engine is synchronous
FairSpec == Init /\ [][Next]_vars /\ WF_vars(Run)

(* ----------------------- a tracker on its own ------------------------- *)

\* calls made on one tracker: enough to see the sentinel more than once
MaxTrackerCalls == MaxLen + 3

\* new MatchContainer(obj, candidates), no Matcher around it
TrackerInit ==
    /\ \E obj \in {NullItem} \cup ProfileItems,
          candidates \in SeqsUpTo(VacancyItems, MaxLen + 1) :
          tracker = MatchContainer(obj, candidates)
    /\ returned = <<>>
    /\ wrappedProfiles = <<>>
    /\ wrappedVacancies = <<>>
    /\ kind = "always"
    /\ answers = <<>>
    /\ predCalls = 0
    /\ maxLoopCount = 0
    /\ done = FALSE
    /\ loopCount = 0
    /\ pc = "idle"
    /\ idx = 0
    /\ output = <<>>
    /\ history = <<>>
    /\ lastStep = [op |-> "none", profile |-> Null, vacancy |-> Null,
                   consulted |-> FALSE, current |-> Null,
                   accepted |-> FALSE]
    /\ roundLog = [changed |-> FALSE, free |-> FALSE]

\* tracker.nextCandidate() is called
TrackerCall ==
    /\ Len(returned) < MaxTrackerCalls
    /\ tracker' = NextCandidate(tracker).self
    /\ returned' = Append(returned, NextCandidate(tracker).output)
    /\ UNCHANGED <<wrappedProfiles, wrappedVacancies, kind, answers,
                   predCalls, maxLoopCount, done, loopCount, pc, idx,
                   output, history, lastStep, roundLog>>

TrackerNext == TrackerCall

TrackerSpec == TrackerInit /\ [][TrackerNext]_vars

(* ------------------------------ shorthands ----------------------------- *)

NumProfiles == Len(wrappedProfiles)
NumVacancies == Len(wrappedVacancies)

LastOutcome == IF history = <<>> THEN "none" ELSE history[Len(history)]

\* a call has just returned its list
Returned == pc = "idle" /\ LastOutcome = "returned"

\* a call has just failed
Failed == pc = "idle" /\ LastOutcome = "error"

MatchedVacancies == {v \in 1..NumVacancies : wrappedVacancies[v].match # Null}

(* -------------------------------- claims ------------------------------- *)

OutputPairs == {output[k] : k \in 1..Len(output)}

\* C1: when getMatches() returns, no item is matched twice: every profile
\* index is the match of at most one vacancy tracker, so it occurs in at most
\* one returned pair (a vacancy index occurs once by construction).
C1_NoDoubleMatch ==
    Returned =>
        /\ \A v, w \in MatchedVacancies :
               v # w => wrappedVacancies[v].match # wrappedVacancies[w].match
        /\ Len(output) = Cardinality(MatchedVacancies)

\* C2: with the complementary predicate and at most one complementary
\* partner per item, the returned pairs are exactly the complementary pairs,
\* whatever the order of the two lists.
C2_ComplementaryPairsExact ==
    ( /\ Returned
      /\ kind = "complementary"
      /\ Distinct([i \in 1..NumProfiles |-> wrappedProfiles[i].obj])
      /\ Distinct([i \in 1..NumVacancies |-> wrappedVacancies[i].obj]) )
    => OutputPairs =
           {<<wrappedVacancies[v].obj, wrappedProfiles[p].obj>> :
                <<v, p>> \in
                    {q \in (1..NumVacancies) \X (1..NumProfiles) :
                         wrappedVacancies[q[1]].obj.want =
                             wrappedProfiles[q[2]].obj.have}}

\* C3: every returned pair (v, p) has predicate(v, p, p) = true: the
\* predicate was asked about (v, p, p) and answered true.
C3_ReturnedPairsEndorsed ==
    Returned =>
        \A k \in 1..Len(output) :
            /\ <<output[k][1], output[k][2], output[k][2]>> \in DOMAIN answers
            /\ answers[<<output[k][1], output[k][2], output[k][2]>>]

\* C3 witness: a call returned a pair after the eviction pass removed another
C3_Witness ==
    /\ Returned
    /\ kind = "table"
    /\ Len(output) = 1
    /\ \E v \in 1..NumVacancies, p \in 1..NumProfiles :
           /\ <<wrappedVacancies[v].obj, wrappedProfiles[p].obj,
                wrappedProfiles[p].obj>> \in DOMAIN answers
           /\ ~answers[<<wrappedVacancies[v].obj, wrappedProfiles[p].obj,
                         wrappedProfiles[p].obj>>]

\* C4: with no profiles or no vacancies every call returns the empty list,
\* no call fails and the predicate is never invoked, whatever the cap.
C4_EmptyInputs ==
    (NumProfiles = 0 \/ NumVacancies = 0) =>
        /\ predCalls = 0
        /\ \A i \in 1..Len(history) : history[i] = "returned"
        /\ output = <<>>
        /\ (pc = "idle" /\ history # <<>> => done)

\* C4 witness: a call returned with profiles but no vacancies, under a cap
C4_Witness ==
    /\ Returned
    /\ NumProfiles = 2
    /\ NumVacancies = 0
    /\ maxLoopCount = 1

\* C5: a call fails exactly when the cap is positive and that many rounds
\* ran with the last one not converged; without a positive cap no call fails.
C5_NonConvergenceIffCapReached ==
    /\ (pc = "idle" /\ history # <<>>) =>
           (LastOutcome = "error" <=>
                (maxLoopCount > 0 /\ loopCount = maxLoopCount /\ ~done))
    /\ maxLoopCount <= 0 => \A i \in 1..Len(history) : history[i] # "error"

\* C5 witness: a call failed after exactly two rounds under cap 2
C5_Witness ==
    /\ Failed
    /\ maxLoopCount = 2
    /\ loopCount = 2
    /\ NumProfiles = 2

\* C6 as stated: with a positive cap, both lists non-empty and the
\* always-true predicate, the first call fails.
C6_AlwaysTrueAlwaysFails ==
    ( /\ kind = "always"
      /\ maxLoopCount > 0
      /\ NumProfiles > 0
      /\ NumVacancies > 0
      /\ history # <<>> )
    => history[1] = "error"

\* C6 amended: with a positive cap N, both lists non-empty and the
\* always-true predicate, the first call fails, after N rounds, if and only
\* if N <= len(vacancies); round len(vacancies) + 1 converges.
C6_AlwaysTrueFailsIffCapSmall ==
    ( /\ kind = "always"
      /\ maxLoopCount > 0
      /\ NumProfiles > 0
      /\ NumVacancies > 0
      /\ history # <<>> )
    => /\ history[1] = "error" <=> maxLoopCount <= NumVacancies
       /\ (Len(history) = 1 /\ pc = "idle") =>
              loopCount = IF maxLoopCount <= NumVacancies
                          THEN maxLoopCount
                          ELSE NumVacancies + 1

\* C6 witness: always-true predicate, cap 2, two vacancies: the call failed
C6_Witness ==
    /\ Failed
    /\ Len(history) = 1
    /\ kind = "always"
    /\ maxLoopCount = 2
    /\ NumVacancies = 2
    /\ NumProfiles = 2
    /\ predCalls > 0

\* C7: with cap 0 a run of match() terminates with done = true; after
\* len(vacancies) rounds every profile cursor is at len(vacancies), and the
\* loop runs at most one round more.
C7_TerminatesWithoutCap ==
    /\ (maxLoopCount = 0 /\ pc = "while") ~> (pc = "idle" /\ done)
    /\ [](maxLoopCount = 0 =>
            /\ loopCount <= NumVacancies + 1
            /\ (pc = "while" /\ loopCount >= NumVacancies) =>
                   \A p \in 1..NumProfiles :
                       wrappedProfiles[p].currentCandidate = NumVacancies)

\* C7 witness: an uncapped run over two profiles and two vacancies ended
C7_Witness ==
    /\ Returned
    /\ done
    /\ maxLoopCount = 0
    /\ NumProfiles = 2
    /\ NumVacancies = 2
    /\ loopCount = 3

\* C8: once a call has returned, no later step changes a tracker or invokes
\* the predicate, and every later call returns the same list.
C8_IdempotentAfterSuccess ==
    [][LastOutcome = "returned" =>
          /\ wrappedProfiles' = wrappedProfiles
          /\ wrappedVacancies' = wrappedVacancies
          /\ predCalls' = predCalls
          /\ answers' = answers
          /\ (history' # history =>
                 /\ history' = Append(history, "returned")
                 /\ output' = output)]_vars

\* C8 witness: two calls returned, the first one computed a pair
C8_Witness ==
    /\ history = <<"returned", "returned">>
    /\ pc = "idle"
    /\ output # <<>>
    /\ predCalls > 0

\* C9: matching runs at most once per instance: once the first call is
\* over, failed or not, no later call is inside match() again.
C9_MatchRunsAtMostOnce ==
    history # <<>> => pc = "idle"

\* the k-th matched vacancy in ascending index order
KthMatched(k) ==
    CHOOSE v \in MatchedVacancies :
        Cardinality({u \in MatchedVacancies : u < v}) = k - 1

\* C10: the returned list holds, in ascending vacancy index order, the pair
\* [vacancy item, matched profile item] of every matched vacancy and nothing
\* else; one vacancy and one profile with predicate(v, p, p) true give
\* exactly one pair [vacancy, profile].
C10_OutputInVacancyOrder ==
    Returned =>
        /\ Len(output) = Cardinality(MatchedVacancies)
        /\ \A k \in 1..Len(output) :
               output[k] =
                   <<wrappedVacancies[KthMatched(k)].obj,
                     wrappedProfiles[
                         wrappedVacancies[KthMatched(k)].match + 1].obj>>
        /\ ( /\ NumProfiles = 1
             /\ NumVacancies = 1
             /\ <<wrappedVacancies[1].obj, wrappedProfiles[1].obj,
                  wrappedProfiles[1].obj>> \in DOMAIN answers
             /\ answers[<<wrappedVacancies[1].obj, wrappedProfiles[1].obj,
                          wrappedProfiles[1].obj>>] )
           => output = << <<wrappedVacancies[1].obj,
                            wrappedProfiles[1].obj>> >>

\* C10 witness: two pairs returned, the first for vacancy 0
C10_Witness ==
    /\ Returned
    /\ Len(output) = 2
    /\ wrappedVacancies[1].match = 1
    /\ wrappedVacancies[2].match = 0

\* C11: on a tracker over n candidates the calls of nextCandidate() return
\* 0, 1, ..., n - 1 in this order and -1 ever after; the cursor never goes
\* down, never exceeds n and is left alone by a call that returns -1.
C11_NextCandidateSequence ==
    LET n == Len(tracker.candidates)
    IN /\ \A k \in 1..Len(returned) :
              returned[k] = IF k <= n THEN k - 1 ELSE Exhausted
       /\ tracker.currentCandidate =
              IF Len(returned) <= n THEN Len(returned) ELSE n
       /\ tracker.currentCandidate <= n

\* C11 witness: three candidates, five calls, the sentinel came twice
C11_Witness ==
    /\ Len(tracker.candidates) = 3
    /\ returned = <<0, 1, 2, Exhausted, Exhausted>>
    /\ tracker.currentCandidate = 3

\* a round of match() has just ended
RoundOver == pc = "while" /\ loopCount > 0

\* a forEach callback is about to run for a profile that has a candidate left
ProposalDue ==
    /\ pc = "forEach"
    /\ idx < NumProfiles
    /\ wrappedProfiles[idx + 1].currentCandidate < NumVacancies

\* the vacancy tracker the profile of the due callback proposes to
DueVacancy ==
    wrappedVacancies[wrappedProfiles[idx + 1].currentCandidate + 1]

\* C12: at the end of every round and after the eviction pass the matching
\* is symmetric: vacancy v holds profile p exactly when profile p holds
\* vacancy v.
C12_SymmetricMatching ==
    (RoundOver \/ Returned) =>
        \A v \in 1..NumVacancies, p \in 1..NumProfiles :
            wrappedVacancies[v].match = p - 1 <=>
                wrappedProfiles[p].match = v - 1

\* C13: every proposal of a profile with a candidate left consults the
\* predicate, except when vacancy and profile are both unmatched; a matched
\* profile proposing to a free vacancy has the predicate decide.
C13_PredicateAlwaysConsulted ==
    [][ProposalDue =>
          (lastStep'.consulted <=>
               ~(DueVacancy.match = Null
                 /\ wrappedProfiles[idx + 1].match = Null))]_vars

\* C14: an unmatched profile proposing to an unmatched vacancy is accepted at
\* once, without a predicate call; a tracker's current match, once set, is
\* changed only by a proposal the predicate accepted at that vacancy or by
\* the eviction of that pairing.
C14_OptimisticAccept ==
    [][/\ ( /\ ProposalDue
            /\ DueVacancy.match = Null
            /\ wrappedProfiles[idx + 1].match = Null )
          => /\ wrappedVacancies'[wrappedProfiles[idx + 1].currentCandidate
                                      + 1].match = idx
             /\ wrappedProfiles'[idx + 1].match =
                    wrappedProfiles[idx + 1].currentCandidate
             /\ predCalls' = predCalls
             /\ answers' = answers
       /\ \A v \in 1..NumVacancies :
              ( /\ wrappedVacancies[v].match # Null
                /\ wrappedVacancies'[v].match # wrappedVacancies[v].match )
              => /\ lastStep'.consulted
                 /\ lastStep'.vacancy = v - 1
                 /\ \/ /\ lastStep'.op = "propose"
                       /\ lastStep'.accepted
                       /\ wrappedVacancies'[v].match = lastStep'.profile
                    \/ /\ lastStep'.op = "evict"
                       /\ ~lastStep'.accepted
                       /\ wrappedVacancies'[v].match = Null
       /\ \A p \in 1..NumProfiles :
              ( /\ wrappedProfiles[p].match # Null
                /\ wrappedProfiles'[p].match # wrappedProfiles[p].match )
              => /\ lastStep'.consulted
                 /\ \/ lastStep'.op = "propose" /\ lastStep'.accepted
                    \/ lastStep'.op = "evict" /\ ~lastStep'.accepted
      ]_vars

\* C14 witness: the complementary predicate was injected and a pair it would
\* reject has just been accepted without a call
C14_Witness ==
    /\ pc = "forEach"
    /\ kind = "complementary"
    /\ lastStep.op = "propose"
    /\ lastStep.accepted
    /\ ~lastStep.consulted
    /\ predCalls = 0
    /\ wrappedVacancies[lastStep.vacancy + 1].match = lastStep.profile
    /\ wrappedVacancies[lastStep.vacancy + 1].obj.want #
           wrappedProfiles[lastStep.profile + 1].obj.have

\* C15 as stated: a round ends converged exactly when no proposal of the
\* round changed a current match.
C15_ConvergedIffNoChange ==
    RoundOver => (done <=> ~roundLog.changed)

\* C15 amended: a round ends converged exactly when no proposal of the round
\* changed a current match and none was made to a vacancy that was unmatched
\* at that moment; a converged round changed no current match.
C15_ConvergedIffNoChangeNoFreeVacancy ==
    RoundOver =>
        /\ done <=> (~roundLog.changed /\ ~roundLog.free)
        /\ done => ~roundLog.changed

\* C15 witness: a round changed no match and still ended not converged
C15_Witness ==
    /\ RoundOver
    /\ ~done
    /\ ~roundLog.changed
    /\ roundLog.free
    /\ NumVacancies = 2
    /\ loopCount = 2

\* the trackers after a proposal that only moved the cursor of profile idx
OnlyCursorAdvanced ==
    /\ wrappedVacancies' = wrappedVacancies
    /\ wrappedProfiles' =
           [wrappedProfiles EXCEPT ![idx + 1].currentCandidate = @ + 1]

\* C16 as stated: a proposal that is not accepted has one effect only, the
\* cursor of the proposing profile advanced by one.
C16_RejectedProposalOnlyAdvances ==
    [][(ProposalDue /\ ~lastStep'.accepted) =>
          (OnlyCursorAdvanced /\ done' = done)]_vars

\* C16 amended: a proposal that is not accepted leaves every current match
\* unchanged and advances the cursor of the proposing profile by one; the
\* done flag is unchanged when the predicate returned false and is set to
\* false when the vacancy was unmatched.
C16_RejectedProposalKeepsMatches ==
    [][(ProposalDue /\ ~lastStep'.accepted) =>
          /\ OnlyCursorAdvanced
          /\ done' = IF DueVacancy.match = Null THEN FALSE ELSE done
          /\ lastStep'.consulted <=> DueVacancy.match # Null]_vars

\* C16 witness: the predicate has just rejected a proposal
C16_Witness ==
    /\ pc = "forEach"
    /\ lastStep.op = "propose"
    /\ lastStep.consulted
    /\ ~lastStep.accepted
    /\ done

C19_VacancyStaysMatchedInRounds ==
    /\ [][\A v \in 1..NumVacancies :
              ( /\ wrappedVacancies[v].match # Null
                /\ wrappedVacancies'[v].match = Null )
              => (pc = "evict" /\ idx = v - 1)]_vars
    /\ [](\A v \in 1..NumVacancies :
              wrappedVacancies[v].currentCandidate = 0)
    /\ [](pc = "while" =>
              \A p, q \in 1..NumProfiles :
                  wrappedProfiles[p].currentCandidate =
                      wrappedProfiles[q].currentCandidate)

\* C19 witness: a vacancy whose match was replaced in the rounds has just
\* lost it in the eviction pass
C19_Witness ==
    /\ pc = "evict"
    /\ lastStep.op = "evict"
    /\ lastStep.consulted
    /\ ~lastStep.accepted
    /\ wrappedVacancies[lastStep.vacancy + 1].match = Null
    /\ NumProfiles = 2
    /\ \E t \in DOMAIN answers : t[2] # t[3] /\ answers[t]

=============================================================================
